---------------------------- MODULE Spec2Model ----------------------------
(***************************************************************************)
(* A model of snapboard/models.py: the permission checks of Category, the *)
(* denormalised aggregates of Thread and Category kept by the post_save /  *)
(* pre_delete signal handlers, and the ban caches of UserBan and IPBan.    *)
(*                                                                         *)
(* The store is the relational database behind the Django models: one     *)
(* function per table, from primary key to row.  Saving a model instance   *)
(* writes every column of its row.  Deleting an instance deletes, with it, *)
(* every row that references it through a ForeignKey, after the pre_delete *)
(* handlers of all the collected rows have run.                            *)
(***************************************************************************)
EXTENDS Integers, FiniteSets, Sequences, TLC

VARIABLES
    cats,               \* snapboard_category: pk -> row
    threads,            \* snapboard_thread:   pk -> row
    posts,              \* snapboard_post:     pk -> row
    seq,                \* the autoincrement counters of the thread and post tables
    now,                \* the last value datetime.now() returned
    pc,                 \* concurrent requests: the position of each request
    loc,                \* concurrent requests: the in-memory instances of each request
    pcat,               \* permission checks: the Category instance asked
    group,              \* permission checks: the Group the category refers to
    actor,              \* permission checks: the user asking
    result,             \* permission checks: what the four checks returned
    userBans,           \* snapboard_userban: pk -> user id
    ipBans,             \* snapboard_ipban: pk -> address
    banSeq,             \* the autoincrement counters of the two ban tables
    SNAP_BANNED_USERS,  \* settings.SNAP_BANNED_USERS
    SNAP_BANNED_IPS,    \* settings.SNAP_BANNED_IPS
    watchlist,          \* snapboard_watchlist: pk -> row
    usersettings,       \* snapboard_usersettings: user id -> row
    mails,              \* the calls of send_mail, in order
    SNAP_NOTIFY,        \* settings.SNAP_NOTIFY
    DEBUG,              \* settings.DEBUG
    ADMINS,             \* settings.ADMINS
    npc,                \* notifying saves: the position of the running Post.save()
    invitations,        \* snapboard_invitation: pk -> row
    invSeq,             \* the autoincrement counter of the invitation table
    notices,            \* the notification.send calls made for each invitation
    notification,       \* the notification app: imported, or None
    call                \* direct calls of Thread methods: the last call and its outcome

forumVars == <<cats, threads, posts, seq, now>>
concVars == <<pc, loc>>
permVars == <<pcat, group, actor, result>>
banVars == <<userBans, ipBans, banSeq, SNAP_BANNED_USERS, SNAP_BANNED_IPS>>
notifyVars == <<watchlist, usersettings, mails, SNAP_NOTIFY, DEBUG, ADMINS, npc>>
inviteVars == <<invitations, invSeq, notices, notification>>
notForum == <<pc, loc, pcat, group, actor, result, userBans, ipBans, banSeq,
              SNAP_BANNED_USERS, SNAP_BANNED_IPS, notifyVars, inviteVars, call>>
vars == <<cats, threads, posts, seq, now, pc, loc, pcat, group, actor,
          result, userBans, ipBans, banSeq, SNAP_BANNED_USERS, SNAP_BANNED_IPS,
          notifyVars, inviteVars, call>>

(***************************************************************************)
(* Bounds of the model.                                                    *)
(***************************************************************************)
NumCats == 2
MaxThreads == 1
MaxPosts == 2
NumUsers == 2
MaxTime == 2

\* None / NULL: no primary key is 0.
Null == 0

CatIds == 1..NumCats
Users == 1..NumUsers

\* User.username and User.email of the user with primary key u.
Username(u) == <<"username", u>>
Email(u) == <<"email", u>>
\* The empty string a CharField holds before it is assigned.
Blank == <<>>

(***************************************************************************)
(* The queries of Thread and Category.  P, T and C are the post, thread   *)
(* and category tables the query runs against.                             *)
(***************************************************************************)
\* thread.post_set
post_set(P, t) == {p \in DOMAIN P : P[p].thread = t}

\* category.thread_set
thread_set(T, c) == {t \in DOMAIN T : T[t].category = c}

\* post_set.exclude(censor=True, revision__isnull=False).count()
update_post_count(P, t) ==
    Cardinality({p \in post_set(P, t) :
                    ~(P[p].censor /\ P[p].revision # Null)})

\* The rows order_by("date")[0] may return: any row of the least date.
get_first_post(P, t) ==
    {p \in post_set(P, t) : \A q \in post_set(P, t) : P[p].date <= P[q].date}

\* The rows order_by("-date")[0] may return: any row of the greatest date.
get_last_post(P, t) ==
    {p \in post_set(P, t) : \A q \in post_set(P, t) : P[q].date <= P[p].date}

\* A recompute that adds the count of the posts to the stored post_count.
ThreadUpdateAdding(P, T, t) ==
    {[T[t] EXCEPT !.post_count = @ + update_post_count(P, t),
                  !.last_update = P[l].date,
                  !.last_poster = Username(P[l].user),
                  !.last_poster_email = Email(P[l].user)] :
        l \in get_last_post(P, t)}

\* Thread.update() on thread t: the rows thread.save() may write.  The three
\* queries for the first and the last post are separate queries.
ThreadUpdate(P, T, t) ==
    {[T[t] EXCEPT !.post_count = update_post_count(P, t),
                  !.last_update = P[l1].date,
                  !.starter = Username(P[f].user),
                  !.starter_email = Email(P[f].user),
                  !.last_poster = Username(P[l2].user),
                  !.last_poster_email = Email(P[l2].user)] :
        <<f, l1, l2>> \in get_first_post(P, t) \X get_last_post(P, t)
                            \X get_last_post(P, t)}

\* The posts of the non-private threads of category c.
PublicPosts(P, T, c) ==
    {p \in DOMAIN P : P[p].thread \in thread_set(T, c)
                        /\ ~T[P[p].thread].private}

\* Post.objects.filter(thread__id__in=thread_pks).order_by("-date")[0]
LatestPublicPosts(P, T, c) ==
    {p \in PublicPosts(P, T, c) :
        \A q \in PublicPosts(P, T, c) : P[q].date <= P[p].date}

\* Category.update_last_post: an empty query result raises IndexError, which
\* is passed over, and last_post keeps its value.
update_last_post(P, T, C, c) ==
    IF LatestPublicPosts(P, T, c) = {}
    THEN {C[c].last_post}
    ELSE LatestPublicPosts(P, T, c)

\* thread_set.filter(private=False).count()
update_thread_count(T, c) ==
    Cardinality({t \in thread_set(T, c) : ~T[t].private})

\* Category.update() on category c: the rows it may leave stored.
CategoryUpdate(P, T, C, c) ==
    {[C[c] EXCEPT !.last_post = lp,
                  !.thread_count = update_thread_count(T, c)] :
        lp \in update_last_post(P, T, C, c)}

(***************************************************************************)
(* Signal handlers.  Each gives the set of stores <<T, C>> the handler may *)
(* leave, run against the post table P.                                    *)
(***************************************************************************)
\* A save whose post_save handlers have not run: the stores are as they were.
NoPostSignal(P, T, C, t) == {<<T, C>>}

\* Thread.signal(instance): instance.category.update()
ThreadSignal(P, T, C, t) ==
    {<<T, [C EXCEPT ![T[t].category] = cr]>> :
        cr \in CategoryUpdate(P, T, C, T[t].category)}

\* Post.signal(instance): instance.thread.update(), whose thread.save() sends
\* post_save of Thread.
PostSignal(P, T, C, t) ==
    UNION {ThreadSignal(P, [T EXCEPT ![t] = tr], C, t) :
            tr \in ThreadUpdate(P, T, t)}

(***************************************************************************)
(* Deletion.  The rows collected with the rows Dp, Dt, Dc: every row that  *)
(* refers to a collected row by a ForeignKey (Post.previous, Post.revision,*)
(* Post.thread, Category.last_post, Thread.category).                      *)
(***************************************************************************)
RECURSIVE Collect(_, _, _, _, _, _)
Collect(P, T, C, Dp, Dt, Dc) ==
    LET Dp2 == Dp \cup {q \in DOMAIN P : \/ P[q].previous \in Dp
                                         \/ P[q].revision \in Dp
                                         \/ P[q].thread \in Dt}
        Dc2 == Dc \cup {c \in DOMAIN C : C[c].last_post \in Dp}
        Dt2 == Dt \cup {t \in DOMAIN T : T[t].category \in Dc}
    IN  IF Dp2 = Dp /\ Dt2 = Dt /\ Dc2 = Dc
        THEN [posts |-> Dp, threads |-> Dt, cats |-> Dc]
        ELSE Collect(P, T, C, Dp2, Dt2, Dc2)

\* The table F without the rows D.
Without(F, D) == [k \in DOMAIN F \ D |-> F[k]]

\* The table F with row r stored under key k.
With(F, k, r) == [j \in DOMAIN F \cup {k} |-> IF j = k THEN r ELSE F[j]]

\* The parts of the state a specification leaves alone.
ConcOff == pc = <<>> /\ loc = <<>>
PermOff == pcat = Null /\ group = Null /\ actor = Null /\ result = Null
BanOff ==
    /\ userBans = <<>> /\ ipBans = <<>>
    /\ banSeq = [user |-> 0, ip |-> 0]
    /\ SNAP_BANNED_USERS = {} /\ SNAP_BANNED_IPS = {}
ForumOff ==
    /\ cats = <<>> /\ threads = <<>> /\ posts = <<>>
    /\ seq = [thread |-> 0, post |-> 0]
    /\ now = 1
\* settings.SNAP_NOTIFY is off: Post.save() ends after the insert and its
\* post_save handlers, and the notification tables stay empty.
NotifyOff ==
    /\ watchlist = <<>> /\ usersettings = <<>> /\ mails = <<>>
    /\ SNAP_NOTIFY = FALSE /\ DEBUG = FALSE /\ ADMINS = {}
    /\ npc = Null
\* No invitation is stored and none has been.
InviteOff ==
    /\ invitations = <<>> /\ invSeq = 0 /\ notices = <<>>
    /\ notification = FALSE
\* No Thread method is called directly.
CallOff == call = Null


(***************************************************************************)
(* The forum: sequential requests.                                         *)
(***************************************************************************)
ForumInit ==
    /\ cats = [c \in CatIds |-> [thread_count |-> 0, last_post |-> Null]]
    /\ threads = <<>>
    /\ posts = <<>>
    /\ seq = [thread |-> 0, post |-> 0]
    /\ now = 1

\* Thread(category=c, private=priv).save(): insert, then post_save.
CreateThread(c, priv) ==
    /\ seq.thread < MaxThreads
    /\ c \in DOMAIN cats
    /\ LET t == seq.thread + 1
           T1 == With(threads, t,
                      [category |-> c, private |-> priv, post_count |-> 0,
                       starter |-> Blank, starter_email |-> Blank,
                       last_poster |-> Blank, last_poster_email |-> Blank,
                       last_update |-> Null])
       IN  /\ \E s \in ThreadSignal(posts, T1, cats, t) :
                /\ threads' = s[1]
                /\ cats' = s[2]
           /\ seq' = [seq EXCEPT !.thread = t]
    /\ UNCHANGED <<posts, now, notForum>>

\* thread.private = priv; thread.category = c; thread.save(): update, then
\* post_save, whose handler updates the category the thread is now in.
SaveThread(t, c, priv) ==
    /\ t \in DOMAIN threads
    /\ c \in DOMAIN cats
    /\ LET T1 == [threads EXCEPT ![t].category = c, ![t].private = priv]
       IN  \E s \in ThreadSignal(posts, T1, cats, t) :
                /\ threads' = s[1]
                /\ cats' = s[2]
    /\ UNCHANGED <<posts, seq, now, notForum>>

\* thread.delete(): the rows are collected, pre_delete runs for the collected
\* posts (Post.signal) and threads (Thread.signal), then the rows are deleted.
DeleteThread(t) ==
    /\ t \in DOMAIN threads
    /\ LET D == Collect(posts, threads, cats, {}, {t}, {})
           S == IF post_set(posts, t) = {}
                THEN ThreadSignal(posts, threads, cats, t)
                ELSE UNION {ThreadSignal(posts, s[1], s[2], t) :
                              s \in PostSignal(posts, threads, cats, t)}
       IN  \E s \in S :
                /\ threads' = Without(s[1], D.threads)
                /\ cats' = Without(s[2], D.cats)
                /\ posts' = Without(posts, D.posts)
    /\ UNCHANGED <<seq, now, notForum>>

\* A save that stamps every new row with the time of the save.
NewPostStamped(P, u, t, prev, d) ==
    [user |-> u, thread |-> t, date |-> d, odate |-> d,
     revision |-> Null, previous |-> prev, censor |-> FALSE]

\* The row Post.save() inserts for a new instance: auto_now_add sets date,
\* odate is copied from previous or set to datetime.now().
NewPost(P, u, t, prev, d) ==
    [user |-> u, thread |-> t, date |-> d,
     odate |-> IF prev # Null THEN P[prev].odate ELSE d,
     revision |-> Null, previous |-> prev, censor |-> FALSE]

\* Post(user=u, thread=t).save(): a new post, then post_save.
CreatePost(u, t, d) ==
    /\ seq.post < MaxPosts
    /\ t \in DOMAIN threads
    /\ LET p == seq.post + 1
           P1 == With(posts, p, NewPost(posts, u, t, Null, d))
       IN  /\ posts' = P1
           /\ \E s \in PostSignal(P1, threads, cats, t) :
                /\ threads' = s[1]
                /\ cats' = s[2]
           /\ seq' = [seq EXCEPT !.post = p]
    /\ now' = d
    /\ UNCHANGED notForum

\* Post(user=u, thread=old.thread, previous=old).save(): an edit of the head
\* old of a revision chain is a new row, then post_save.
EditPost(u, old, d) ==
    /\ seq.post < MaxPosts
    /\ old \in DOMAIN posts
    /\ \A q \in DOMAIN posts : posts[q].previous # old
    /\ LET p == seq.post + 1
           t == posts[old].thread
           P1 == With(posts, p, NewPost(posts, u, t, old, d))
       IN  /\ posts' = P1
           /\ \E s \in PostSignal(P1, threads, cats, t) :
                /\ threads' = s[1]
                /\ cats' = s[2]
           /\ seq' = [seq EXCEPT !.post = p]
    /\ now' = d
    /\ UNCHANGED notForum

\* post.censor = cen; post.revision = rev; post.save(): a stored row saved
\* in place (created is False), then post_save.
UpdatePost(p, cen, rev) ==
    /\ p \in DOMAIN posts
    /\ rev = Null \/ (rev \in post_set(posts, posts[p].thread) /\ rev # p)
    /\ LET t == posts[p].thread
           prev == posts[p].previous
           P1 == [posts EXCEPT ![p].censor = cen, ![p].revision = rev,
                               ![p].odate = IF prev # Null
                                            THEN posts[prev].odate ELSE @]
       IN  /\ posts' = P1
           /\ \E s \in PostSignal(P1, threads, cats, t) :
                /\ threads' = s[1]
                /\ cats' = s[2]
    /\ UNCHANGED <<seq, now, notForum>>

\* post.delete(): the rows are collected, pre_delete runs (Post.signal sees
\* the post still stored), then the rows are deleted.
DeletePost(p) ==
    /\ p \in DOMAIN posts
    /\ LET t == posts[p].thread
           D == Collect(posts, threads, cats, {p}, {}, {})
       IN  /\ \E s \in PostSignal(posts, threads, cats, t) :
                /\ threads' = Without(s[1], D.threads)
                /\ cats' = Without(s[2], D.cats)
           /\ posts' = Without(posts, D.posts)
    /\ UNCHANGED <<seq, now, notForum>>

\* datetime.now() does not go back; two calls may return the same value.
Dates == {d \in now..(now + 1) : d <= MaxTime}

Next ==
    \/ \E c \in CatIds, priv \in BOOLEAN : CreateThread(c, priv)
    \/ \E t \in DOMAIN threads, c \in CatIds, priv \in BOOLEAN :
            SaveThread(t, c, priv)
    \/ \E t \in DOMAIN threads : DeleteThread(t)
    \/ \E u \in Users, t \in DOMAIN threads, d \in Dates : CreatePost(u, t, d)
    \/ \E u \in Users, old \in DOMAIN posts, d \in Dates : EditPost(u, old, d)
    \/ \E p \in DOMAIN posts, cen \in BOOLEAN, rev \in {Null} \cup DOMAIN posts :
            UpdatePost(p, cen, rev)
    \/ \E p \in DOMAIN posts : DeletePost(p)

Init == ForumInit /\ ConcOff /\ PermOff /\ BanOff /\ NotifyOff /\ InviteOff /\ CallOff
Spec == Init /\ [][Next]_vars

(***************************************************************************)
(* What the claims about the forum speak of.                               *)
(***************************************************************************)
ThreadIds == 1..MaxThreads

\* The stored posts of thread t, and those among them that count: the rows
\* that are not both censored and revision-linked.
PostsOf(t) == {p \in DOMAIN posts : posts[p].thread = t}
CountedPosts(t) ==
    {p \in PostsOf(t) : ~posts[p].censor \/ posts[p].revision = Null}
OldestOf(t) ==
    {p \in PostsOf(t) : \A q \in PostsOf(t) : posts[p].date <= posts[q].date}
NewestOf(t) ==
    {p \in PostsOf(t) : \A q \in PostsOf(t) : posts[p].date >= posts[q].date}

\* The aggregates of thread t are those a scan of its stored posts gives.
ThreadDerived(t) ==
    /\ threads[t].post_count = Cardinality(CountedPosts(t))
    /\ PostsOf(t) # {} =>
        /\ \E f \in OldestOf(t) :
            /\ threads[t].starter = Username(posts[f].user)
            /\ threads[t].starter_email = Email(posts[f].user)
        /\ \E l \in NewestOf(t) :
            /\ threads[t].last_poster = Username(posts[l].user)
            /\ threads[t].last_poster_email = Email(posts[l].user)
            /\ threads[t].last_update = posts[l].date

\* A post create, edit or delete on thread t.
PostMutation(t) ==
    \/ \E u \in Users, d \in Dates : CreatePost(u, t, d)
    \/ \E u \in Users, old \in PostsOf(t), d \in Dates : EditPost(u, old, d)
    \/ \E p \in PostsOf(t) : DeletePost(p)

\* C1: after a post create, edit or delete on a thread, the thread's
\* post_count, starter, last_poster and last_update are those derived from
\* the posts then stored in it.  (Stated of every step that is such a
\* mutation; post.delete() breaks it.)
C1_AggregatesDerived ==
    [][\A t \in ThreadIds :
        (PostMutation(t) /\ t \in DOMAIN threads') => ThreadDerived(t)']_vars

\* The non-private threads stored in category c.
PublicThreads(c) ==
    {t \in DOMAIN threads : threads[t].category = c /\ ~threads[t].private}

ThreadCountsRight ==
    \A c \in DOMAIN cats : cats[c].thread_count = Cardinality(PublicThreads(c))

\* A thread create, delete, private toggle or re-assignment.
ThreadMutation ==
    \/ \E c \in CatIds, priv \in BOOLEAN : CreateThread(c, priv)
    \/ \E t \in DOMAIN threads, c \in CatIds, priv \in BOOLEAN :
            SaveThread(t, c, priv)
    \/ \E t \in DOMAIN threads : DeleteThread(t)

\* C2: after a thread create, delete, private toggle or re-assignment, every
\* category's thread_count is the number of non-private threads stored in
\* it.  (thread.delete() and re-assignment break it.)
C2_ThreadCountRight == [][ThreadMutation => ThreadCountsRight']_vars

\* The most recent posts of the non-private threads of category c.
NewestPublic(c) ==
    LET pub == {p \in DOMAIN posts : posts[p].thread \in PublicThreads(c)}
    IN  {p \in pub : \A q \in pub : posts[p].date >= posts[q].date}

\* C3: in every state the mutations leave, a category's last_post is a most
\* recent post of its non-private threads, and null when there is none.
\* (A thread made private, moved or deleted leaves last_post behind.)
C3_LastPostRight ==
    \A c \in DOMAIN cats :
        IF NewestPublic(c) = {}
        THEN cats[c].last_post = Null
        ELSE cats[c].last_post \in NewestPublic(c)

\* C8: an edit (a new row whose previous is the old head) leaves the
\* thread's post_count as it was.  (The new row is counted.)
C8_EditKeepsCount ==
    [][\A old \in DOMAIN posts :
        (\E u \in Users, d \in Dates : EditPost(u, old, d)) =>
            threads'[posts[old].thread].post_count
                = threads[posts[old].thread].post_count]_vars

\* C9: censoring in place a row that has no revision link leaves the
\* thread's post_count as it was, and the rows the count then leaves out are
\* those both censored and revision-linked.  (The recompute also repairs a
\* count that post.delete() had left stale, see C1.)
C9_CensorKeepsCount ==
    [][\A p \in DOMAIN posts :
        (posts[p].revision = Null /\ ~posts[p].censor
            /\ UpdatePost(p, TRUE, Null)) =>
            /\ threads'[posts[p].thread].post_count
                = threads[posts[p].thread].post_count
            /\ threads'[posts[p].thread].post_count
                = Cardinality(CountedPosts(posts[p].thread))']_vars

(***************************************************************************)
(* Concurrent requests.  Each request saves a new post to thread TheThread *)
(* and runs Post.save() to the end of the post_save handler.  Every query  *)
(* and every save is a step of its own: nothing in Thread.update() or      *)
(* Category.update() takes a lock or re-reads before it writes.            *)
(***************************************************************************)
NumRequests == 2
Requests == 1..NumRequests
TheThread == Null + 1

ConcInit ==
    /\ cats = [c \in CatIds |-> [thread_count |-> IF c = 1 THEN 1 ELSE 0,
                                 last_post |-> Null]]
    /\ threads = <<[category |-> 1, private |-> FALSE, post_count |-> 0,
                    starter |-> Blank, starter_email |-> Blank,
                    last_poster |-> Blank, last_poster_email |-> Blank,
                    last_update |-> Null]>>
    /\ posts = <<>>
    /\ seq = [thread |-> 1, post |-> 0]
    /\ now = 1
    /\ pc = [r \in Requests |-> "save"]
    /\ loc = [r \in Requests |-> [thread |-> threads[TheThread],
                                  cat |-> cats[1]]]

notConc == <<pcat, group, actor, result, userBans, ipBans, banSeq,
             SNAP_BANNED_USERS, SNAP_BANNED_IPS, notifyVars, inviteVars, call>>

Goto(r, label) == pc' = [pc EXCEPT ![r] = label]

\* super(Post, self).save(): the INSERT of the new row.
RqInsert(r, u, d) ==
    /\ pc[r] = "save"
    /\ posts' = With(posts, seq.post + 1, NewPost(posts, u, TheThread, Null, d))
    /\ seq' = [seq EXCEPT !.post = @ + 1]
    /\ now' = d
    /\ Goto(r, "signal")
    /\ UNCHANGED <<cats, threads, loc, notConc>>

\* Post.signal: instance.thread fetches the thread row.
RqLoadThread(r) ==
    /\ pc[r] = "signal"
    /\ loc' = [loc EXCEPT ![r].thread = threads[TheThread]]
    /\ Goto(r, "update_post_count")
    /\ UNCHANGED <<cats, threads, posts, seq, now, notConc>>

\* Thread.update_post_count: the count query.
RqPostCount(r) ==
    /\ pc[r] = "update_post_count"
    /\ loc' = [loc EXCEPT
                ![r].thread.post_count = update_post_count(posts, TheThread)]
    /\ Goto(r, "update_last_update")
    /\ UNCHANGED <<cats, threads, posts, seq, now, notConc>>

\* Thread.update_last_update: get_last_post().date
RqLastUpdate(r) ==
    /\ pc[r] = "update_last_update"
    /\ \E l \in get_last_post(posts, TheThread) :
        loc' = [loc EXCEPT ![r].thread.last_update = posts[l].date]
    /\ Goto(r, "update_first_post")
    /\ UNCHANGED <<cats, threads, posts, seq, now, notConc>>

\* Thread.update_first_post
RqFirstPost(r) ==
    /\ pc[r] = "update_first_post"
    /\ \E f \in get_first_post(posts, TheThread) :
        loc' = [loc EXCEPT ![r].thread.starter = Username(posts[f].user),
                           ![r].thread.starter_email = Email(posts[f].user)]
    /\ Goto(r, "update_last_post")
    /\ UNCHANGED <<cats, threads, posts, seq, now, notConc>>

\* Thread.update_last_post
RqLastPost(r) ==
    /\ pc[r] = "update_last_post"
    /\ \E l \in get_last_post(posts, TheThread) :
        loc' = [loc EXCEPT ![r].thread.last_poster = Username(posts[l].user),
                           ![r].thread.last_poster_email = Email(posts[l].user)]
    /\ Goto(r, "thread_save")
    /\ UNCHANGED <<cats, threads, posts, seq, now, notConc>>

\* Thread.update: self.save() writes the whole row.
RqThreadSave(r) ==
    /\ pc[r] = "thread_save"
    /\ threads' = [threads EXCEPT ![TheThread] = loc[r].thread]
    /\ Goto(r, "thread_signal")
    /\ UNCHANGED <<cats, posts, seq, now, loc, notConc>>

\* Thread.signal: instance.category fetches the category row.
RqLoadCategory(r) ==
    /\ pc[r] = "thread_signal"
    /\ loc' = [loc EXCEPT ![r].cat = cats[loc[r].thread.category]]
    /\ Goto(r, "cat_last_post")
    /\ UNCHANGED <<cats, threads, posts, seq, now, notConc>>

\* Category.update_last_post: the query; no row, no save.
RqCatLastPost(r) ==
    /\ pc[r] = "cat_last_post"
    /\ LET c == loc[r].thread.category
       IN  IF LatestPublicPosts(posts, threads, c) = {}
           THEN /\ Goto(r, "cat_thread_count")
                /\ UNCHANGED loc
           ELSE /\ \E lp \in LatestPublicPosts(posts, threads, c) :
                        loc' = [loc EXCEPT ![r].cat.last_post = lp]
                /\ Goto(r, "cat_save_last_post")
    /\ UNCHANGED <<cats, threads, posts, seq, now, notConc>>

\* Category.update_last_post: self.save()
RqCatSaveLastPost(r) ==
    /\ pc[r] = "cat_save_last_post"
    /\ cats' = [cats EXCEPT ![loc[r].thread.category] = loc[r].cat]
    /\ Goto(r, "cat_thread_count")
    /\ UNCHANGED <<threads, posts, seq, now, loc, notConc>>

\* Category.update_thread_count: the count query.
RqCatThreadCount(r) ==
    /\ pc[r] = "cat_thread_count"
    /\ loc' = [loc EXCEPT ![r].cat.thread_count =
                    update_thread_count(threads, loc[r].thread.category)]
    /\ Goto(r, "cat_save_thread_count")
    /\ UNCHANGED <<cats, threads, posts, seq, now, notConc>>

\* Category.update_thread_count: self.save()
RqCatSaveThreadCount(r) ==
    /\ pc[r] = "cat_save_thread_count"
    /\ cats' = [cats EXCEPT ![loc[r].thread.category] = loc[r].cat]
    /\ Goto(r, "done")
    /\ UNCHANGED <<threads, posts, seq, now, loc, notConc>>

ConcNext ==
    \/ \E r \in Requests, u \in Users, d \in Dates : RqInsert(r, u, d)
    \/ \E r \in Requests : RqLoadThread(r)
    \/ \E r \in Requests : RqPostCount(r)
    \/ \E r \in Requests : RqLastUpdate(r)
    \/ \E r \in Requests : RqFirstPost(r)
    \/ \E r \in Requests : RqLastPost(r)
    \/ \E r \in Requests : RqThreadSave(r)
    \/ \E r \in Requests : RqLoadCategory(r)
    \/ \E r \in Requests : RqCatLastPost(r)
    \/ \E r \in Requests : RqCatSaveLastPost(r)
    \/ \E r \in Requests : RqCatThreadCount(r)
    \/ \E r \in Requests : RqCatSaveThreadCount(r)

InitConc == ConcInit /\ PermOff /\ BanOff /\ NotifyOff /\ InviteOff /\ CallOff
SpecConc == InitConc /\ [][ConcNext]_vars

\* C4: once both concurrent saves have finished, the thread's post_count
\* counts both posts and its last_update is the date of the newest.  (A
\* request that counted before the other inserted may write last.)
C4_NoLostUpdate ==
    (\A r \in Requests : pc[r] = "done") =>
        /\ threads[TheThread].post_count = Cardinality(CountedPosts(TheThread))
        /\ \E l \in NewestOf(TheThread) :
            threads[TheThread].last_update = posts[l].date

(***************************************************************************)
(* Permission checks.  The checks are pure: the category, its group and    *)
(* the user are drawn by PermInit, and each check records what it returns. *)
(***************************************************************************)
NOBODY == 0
ALL == 1
USERS == 2
CUSTOM == 3
PERM_CHOICES == {NOBODY, ALL, USERS, CUSTOM}
PERM_CHOICES_RESTRICTED == {NOBODY, ALL, USERS, CUSTOM}

NumPermUsers == 1
PermUsers == 1..NumPermUsers
\* The primary key of the one Group the category's group fields may refer to.
TheGroup == Null + 1

\* django.contrib.auth: AnonymousUser, and the User with primary key u.
AnonymousUser == [pk |-> Null, is_authenticated |-> FALSE, is_superuser |-> FALSE]
User(u, su) == [pk |-> u, is_authenticated |-> TRUE, is_superuser |-> su]
Actors == {AnonymousUser} \cup {User(u, su) : u \in PermUsers, su \in BOOLEAN}

\* What a check gives: a returned flag, or an exception raised.
Return(flag) == [raised |-> FALSE, flag |-> flag]
Raise == [raised |-> TRUE, flag |-> FALSE]

\* A has_user that takes the group's admins for members.
has_user_or_admin(g, user) == user.pk \in g.users \cup g.admins

\* Group.has_user: self.users.filter(pk=user.pk).count() != 0
has_user(g, user) == user.pk \in g.users

\* Group.has_admin: self.admins.filter(pk=user.pk).count() != 0
has_admin(g, user) == user.pk \in g.admins

\* user.is_superuser or (user.is_authenticated() and grp.has_user(user)),
\* where the group field gref is None or the key of group g: has_user is
\* looked up on None when the field is not set.
CustomFlag(gref, g, user) ==
    IF user.is_superuser THEN Return(TRUE)
    ELSE IF ~user.is_authenticated THEN Return(FALSE)
    ELSE IF gref = Null THEN Raise
    ELSE Return(has_user(g, user))

\* Category.can_view
can_view(c, g, user) ==
    IF c.view_perms = ALL THEN Return(TRUE)
    ELSE IF c.view_perms = USERS THEN Return(user.is_authenticated)
    ELSE IF c.view_perms = CUSTOM THEN CustomFlag(c.view_group, g, user)
    ELSE Return(FALSE)

\* Category.can_read
can_read(c, g, user) ==
    IF c.read_perms = ALL THEN Return(TRUE)
    ELSE IF c.read_perms = USERS THEN Return(user.is_authenticated)
    ELSE IF c.read_perms = CUSTOM THEN CustomFlag(c.read_group, g, user)
    ELSE Return(FALSE)

\* A can_post whose USERS branch asks for membership of the post group.
can_post_members_only(c, g, user) ==
    IF c.post_perms = USERS \/ c.post_perms = CUSTOM
    THEN CustomFlag(c.post_group, g, user)
    ELSE Return(FALSE)

\* Category.can_post: there is no branch for ALL.
can_post(c, g, user) ==
    IF c.post_perms = USERS THEN Return(user.is_authenticated)
    ELSE IF c.post_perms = CUSTOM THEN CustomFlag(c.post_group, g, user)
    ELSE Return(FALSE)

\* Category.can_create_thread: there is no branch for ALL.
can_create_thread(c, g, user) ==
    IF c.new_thread_perms = USERS THEN Return(user.is_authenticated)
    ELSE IF c.new_thread_perms = CUSTOM
         THEN CustomFlag(c.new_thread_group, g, user)
    ELSE Return(FALSE)

Categories ==
    [view_perms : PERM_CHOICES, read_perms : PERM_CHOICES,
     post_perms : PERM_CHOICES_RESTRICTED,
     new_thread_perms : PERM_CHOICES_RESTRICTED,
     view_group : {Null, TheGroup}, read_group : {Null, TheGroup},
     post_group : {Null, TheGroup}, new_thread_group : {Null, TheGroup}]

PermInit ==
    /\ pcat \in Categories
    /\ group \in [users : SUBSET PermUsers, admins : SUBSET PermUsers]
    /\ actor \in Actors
    /\ result = [check |-> "none", ret |-> Return(FALSE)]

notPerm == <<cats, threads, posts, seq, now, pc, loc, userBans, ipBans,
             banSeq, SNAP_BANNED_USERS, SNAP_BANNED_IPS, notifyVars, inviteVars, call>>

CheckView ==
    /\ result.check = "none"
    /\ result' = [check |-> "can_view", ret |-> can_view(pcat, group, actor)]
    /\ UNCHANGED <<pcat, group, actor, notPerm>>

CheckRead ==
    /\ result.check = "none"
    /\ result' = [check |-> "can_read", ret |-> can_read(pcat, group, actor)]
    /\ UNCHANGED <<pcat, group, actor, notPerm>>

CheckPost ==
    /\ result.check = "none"
    /\ result' = [check |-> "can_post", ret |-> can_post(pcat, group, actor)]
    /\ UNCHANGED <<pcat, group, actor, notPerm>>

CheckCreateThread ==
    /\ result.check = "none"
    /\ result' = [check |-> "can_create_thread",
                  ret |-> can_create_thread(pcat, group, actor)]
    /\ UNCHANGED <<pcat, group, actor, notPerm>>

PermNext == CheckView \/ CheckRead \/ CheckPost \/ CheckCreateThread

InitPerm == PermInit /\ ForumOff /\ ConcOff /\ BanOff /\ NotifyOff /\ InviteOff /\ CallOff
SpecPerm == InitPerm /\ [][PermNext]_vars

\* C5: where the post (create-thread) level is ALL, can_post
\* (can_create_thread) returns True for every user.  (Neither method has a
\* branch for ALL: both return False.)
C5_AllGrantsPosting ==
    /\ (result.check = "can_post" /\ pcat.post_perms = ALL)
        => result.ret = Return(TRUE)
    /\ (result.check = "can_create_thread" /\ pcat.new_thread_perms = ALL)
        => result.ret = Return(TRUE)

\* C6: where post_perms is CUSTOM and the post group is set, can_post
\* returns True exactly for a superuser and for an authenticated user in the
\* group's users; being in the group's admins grants nothing.
C6_CustomPostIffMember ==
    (result.check = "can_post" /\ pcat.post_perms = CUSTOM
        /\ pcat.post_group = TheGroup) =>
        /\ ~result.ret.raised
        /\ result.ret.flag <=>
            \/ actor.is_superuser
            \/ actor.is_authenticated /\ actor.pk \in group.users

\* A user who is an admin of the post group and not in its users has asked
\* to post and was refused.
C6_Witness ==
    /\ result.check = "can_post"
    /\ pcat.post_perms = CUSTOM /\ pcat.post_group = TheGroup
    /\ actor.is_authenticated /\ ~actor.is_superuser
    /\ actor.pk \in group.admins \ group.users
    /\ result.ret = Return(FALSE)

\* C7: where view_perms is ALL and post_perms is USERS, can_view returns
\* True for every user, and can_post returns False for the anonymous user
\* and True for every authenticated one, whatever the groups hold.
C7_ViewAllPostUsers ==
    (pcat.view_perms = ALL /\ pcat.post_perms = USERS) =>
        /\ result.check = "can_view" => result.ret = Return(TRUE)
        /\ result.check = "can_post" =>
                result.ret = Return(actor.is_authenticated)

\* An authenticated user who is in no group has asked to post in such a
\* category and was let in.
C7_Witness ==
    /\ result.check = "can_post"
    /\ pcat.view_perms = ALL /\ pcat.post_perms = USERS
    /\ actor.is_authenticated /\ ~actor.is_superuser
    /\ actor.pk \notin group.users \cup group.admins
    /\ result.ret = Return(TRUE)

(***************************************************************************)
(* The ban caches: sequential creates, saves and deletes of UserBan and    *)
(* IPBan rows.  post_save and post_delete run update_cache after the row   *)
(* has been written or removed.                                            *)
(***************************************************************************)
NumBanUsers == 2
NumAddresses == 2
MaxBans == 3
BanUsers == 1..NumBanUsers
Addresses == 1..NumAddresses

\* is_user_banned(user): user.id in settings.SNAP_BANNED_USERS
is_user_banned(u) == u \in SNAP_BANNED_USERS

\* is_ip_banned(ip): ip in settings.SNAP_BANNED_IPS
is_ip_banned(a) == a \in SNAP_BANNED_IPS

\* UserBan.update_cache: set(x for (x,) in SELECT user_id FROM the table)
UserBan_update_cache(rows) == {rows[k] : k \in DOMAIN rows}

\* IPBan.update_cache: set(x for (x,) in SELECT address FROM the table)
IPBan_update_cache(rows) == {rows[k] : k \in DOMAIN rows}

\* A handler connected to pre_delete instead: it reads the table with the
\* row still in it.
PreSaveOrDelete(before, after) == before

\* The table a handler connected to post_save / post_delete reads: the table
\* as the save or delete has left it.
PostSaveOrDelete(before, after) == after

BanInit ==
    /\ userBans = <<>>
    /\ ipBans = <<>>
    /\ banSeq = [user |-> 0, ip |-> 0]
    /\ SNAP_BANNED_USERS = {}
    /\ SNAP_BANNED_IPS = {}

notBan == <<cats, threads, posts, seq, now, pc, loc, pcat, group, actor,
            result, notifyVars, inviteVars, call>>

\* unique=True on UserBan.user and IPBan.address: the save is refused
\* (IntegrityError) when another row holds the value.
Unique(rows, k, v) == \A j \in DOMAIN rows : j # k => rows[j] # v

\* UserBan(user=u).save(): insert, then post_save.
CreateUserBan(u) ==
    /\ banSeq.user < MaxBans
    /\ Unique(userBans, Null, u)
    /\ userBans' = With(userBans, banSeq.user + 1, u)
    /\ banSeq' = [banSeq EXCEPT !.user = @ + 1]
    /\ SNAP_BANNED_USERS' =
            UserBan_update_cache(PostSaveOrDelete(userBans, userBans'))
    /\ UNCHANGED <<ipBans, SNAP_BANNED_IPS, notBan>>

\* ban.user = u; ban.save(): update of the stored row k, then post_save.
SaveUserBan(k, u) ==
    /\ k \in DOMAIN userBans
    /\ Unique(userBans, k, u)
    /\ userBans' = [userBans EXCEPT ![k] = u]
    /\ SNAP_BANNED_USERS' =
            UserBan_update_cache(PostSaveOrDelete(userBans, userBans'))
    /\ UNCHANGED <<ipBans, banSeq, SNAP_BANNED_IPS, notBan>>

\* ban.delete(): the row is removed, then post_delete.
DeleteUserBan(k) ==
    /\ k \in DOMAIN userBans
    /\ userBans' = Without(userBans, {k})
    /\ SNAP_BANNED_USERS' =
            UserBan_update_cache(PostSaveOrDelete(userBans, userBans'))
    /\ UNCHANGED <<ipBans, banSeq, SNAP_BANNED_IPS, notBan>>

\* IPBan(address=a).save(): insert, then post_save.
CreateIPBan(a) ==
    /\ banSeq.ip < MaxBans
    /\ Unique(ipBans, Null, a)
    /\ ipBans' = With(ipBans, banSeq.ip + 1, a)
    /\ banSeq' = [banSeq EXCEPT !.ip = @ + 1]
    /\ SNAP_BANNED_IPS' =
            IPBan_update_cache(PostSaveOrDelete(ipBans, ipBans'))
    /\ UNCHANGED <<userBans, SNAP_BANNED_USERS, notBan>>

\* ban.address = a; ban.save(): update of the stored row k, then post_save.
SaveIPBan(k, a) ==
    /\ k \in DOMAIN ipBans
    /\ Unique(ipBans, k, a)
    /\ ipBans' = [ipBans EXCEPT ![k] = a]
    /\ SNAP_BANNED_IPS' =
            IPBan_update_cache(PostSaveOrDelete(ipBans, ipBans'))
    /\ UNCHANGED <<userBans, banSeq, SNAP_BANNED_USERS, notBan>>

\* ban.delete(): the row is removed, then post_delete.
DeleteIPBan(k) ==
    /\ k \in DOMAIN ipBans
    /\ ipBans' = Without(ipBans, {k})
    /\ SNAP_BANNED_IPS' =
            IPBan_update_cache(PostSaveOrDelete(ipBans, ipBans'))
    /\ UNCHANGED <<userBans, banSeq, SNAP_BANNED_USERS, notBan>>

BanNext ==
    \/ \E u \in BanUsers : CreateUserBan(u)
    \/ \E k \in DOMAIN userBans, u \in BanUsers : SaveUserBan(k, u)
    \/ \E k \in DOMAIN userBans : DeleteUserBan(k)
    \/ \E a \in Addresses : CreateIPBan(a)
    \/ \E k \in DOMAIN ipBans, a \in Addresses : SaveIPBan(k, a)
    \/ \E k \in DOMAIN ipBans : DeleteIPBan(k)

InitBan == BanInit /\ ForumOff /\ ConcOff /\ PermOff /\ NotifyOff /\ InviteOff /\ CallOff
SpecBan == InitBan /\ [][BanNext]_vars

\* C10: in every state the sequential ban creates, saves and deletes leave,
\* the cached user set is the set of user ids of the stored UserBan rows and
\* the cached address set the set of addresses of the stored IPBan rows; so
\* is_user_banned and is_ip_banned answer by the stored rows.
C10_CacheIsStore ==
    /\ SNAP_BANNED_USERS = {userBans[k] : k \in DOMAIN userBans}
    /\ SNAP_BANNED_IPS = {ipBans[k] : k \in DOMAIN ipBans}
    /\ \A u \in BanUsers :
        is_user_banned(u) <=> \E k \in DOMAIN userBans : userBans[k] = u
    /\ \A a \in Addresses :
        is_ip_banned(a) <=> \E k \in DOMAIN ipBans : ipBans[k] = a

\* A user ban and an address ban have been created and deleted again, one
\* more of each is stored, and the banned user is the only one banned.
C10_Witness ==
    /\ banSeq.user = 2 /\ banSeq.ip = 2
    /\ DOMAIN userBans = {2} /\ DOMAIN ipBans = {2}
    /\ is_user_banned(userBans[2])
    /\ \A u \in BanUsers \ {userBans[2]} : ~is_user_banned(u)
    /\ is_ip_banned(ipBans[2])

(***************************************************************************)
(* Notifying saves.  One thread, TheThread, is stored; requests save posts  *)
(* to it one after the other.  Post.save() is followed call by call: the   *)
(* insert with its post_save handlers, the two get_or_create calls, and    *)
(* notify() with its send_mail.  No other request runs before it returns.  *)
(***************************************************************************)
\* The address of a site administrator who is no user of the forum.
AdminMail == Email(NumUsers + 1)

\* Post.user of a request: a user, or None.
Authors == Users \cup {Null}

\* The primary key an insert into table F gets.
NextKey(F) ==
    IF DOMAIN F = {} THEN 1
    ELSE 1 + CHOOSE k \in DOMAIN F : \A j \in DOMAIN F : j <= k

\* thread.watchlist_set.values_list("user__id", ...): the users watching t.
watchlist_set(W, t) == {W[k].user : k \in {j \in DOMAIN W : W[j].thread = t}}

\* A notify that mails every watcher, whatever their settings say.
notify_every_watcher(W, U, A, t) ==
    {Email(u) : u \in watchlist_set(W, t)} \cup {a[2] : a \in A}

\* Post.notify: the recipients handed to send_mail.  W, U and A are the
\* watchlist table, the usersettings table and settings.ADMINS.
notify(W, U, A, t) ==
    LET mail_dict == [u \in watchlist_set(W, t) |-> Email(u)]
        dont_mail_pks == {u \in DOMAIN U : u \in DOMAIN mail_dict
                                            /\ ~U[u].notify_email}
        kept == DOMAIN mail_dict \ dont_mail_pks
        recipients == {mail_dict[u] : u \in kept}
    IN  recipients \cup {a[2] : a \in A}

\* UserSettings.objects.get_or_create(user=u)
get_or_create_settings(U, u) ==
    IF u \in DOMAIN U THEN U ELSE With(U, u, [notify_email |-> TRUE])

\* The rows WatchList.objects.get(user=u, thread=t) finds.
WatchRows(W, u, t) == {k \in DOMAIN W : W[k].user = u /\ W[k].thread = t}

\* WatchList.objects.create(user=u, thread=t): a row is added in any case.
create_watch(W, u, t) == With(W, NextKey(W), [user |-> u, thread |-> t])

\* WatchList.objects.get_or_create(user=u, thread=t), where one row at most
\* is found.
get_or_create_watch(W, u, t) ==
    IF WatchRows(W, u, t) # {} THEN W
    ELSE With(W, NextKey(W), [user |-> u, thread |-> t])

\* settings.SNAP_NOTIFY and created and self.user is not None
ShouldNotify(created, u) == SNAP_NOTIFY /\ created /\ u # Null

Idle(p, raised) == [at |-> "idle", post |-> p, raised |-> raised]

NotifyInit ==
    /\ cats = [c \in CatIds |-> [thread_count |-> IF c = 1 THEN 1 ELSE 0,
                                 last_post |-> Null]]
    /\ threads = <<[category |-> 1, private |-> FALSE, post_count |-> 0,
                    starter |-> Blank, starter_email |-> Blank,
                    last_poster |-> Blank, last_poster_email |-> Blank,
                    last_update |-> Null]>>
    /\ posts = <<>>
    /\ seq = [thread |-> 1, post |-> 0]
    /\ now = 1
    /\ \E S \in SUBSET Users :
        watchlist = [k \in S |-> [user |-> k, thread |-> TheThread]]
    /\ \E S \in SUBSET Users : usersettings \in [S -> [notify_email : BOOLEAN]]
    /\ mails = <<>>
    /\ SNAP_NOTIFY \in BOOLEAN
    /\ DEBUG \in BOOLEAN
    /\ ADMINS \in {{}, {<<"admin", Email(1)>>, <<"root", AdminMail>>}}
    /\ npc = Idle(Null, FALSE)

notNotify == <<pc, loc, pcat, group, actor, result, userBans, ipBans, banSeq,
               SNAP_BANNED_USERS, SNAP_BANNED_IPS, inviteVars, call>>

\* Post.save() of a new instance, up to the test for notification:
\* super().save() inserts the row and runs the post_save handlers.  The
\* user_id column is NOT NULL: without a user the insert raises
\* IntegrityError and nothing is stored.
NPostSave(u, prev, d) ==
    /\ npc.at = "idle"
    /\ seq.post < MaxPosts
    /\ now' = d
    /\ IF u = Null
       THEN /\ npc' = Idle(Null, TRUE)
            /\ UNCHANGED <<cats, threads, posts, seq>>
       ELSE LET p == seq.post + 1
                P1 == With(posts, p, NewPost(posts, u, TheThread, prev, d))
            IN  /\ posts' = P1
                /\ \E s \in PostSignal(P1, threads, cats, TheThread) :
                        /\ threads' = s[1]
                        /\ cats' = s[2]
                /\ seq' = [seq EXCEPT !.post = p]
                /\ npc' = IF ShouldNotify(TRUE, u)
                          THEN [at |-> "get_or_create_settings", post |-> p,
                                raised |-> FALSE]
                          ELSE Idle(p, FALSE)
    /\ UNCHANGED <<watchlist, usersettings, mails, SNAP_NOTIFY, DEBUG, ADMINS,
                   notNotify>>

\* Post(user=u, thread=TheThread).save()
NCreatePost(u, d) == NPostSave(u, Null, d)

\* Post(user=u, thread=TheThread, previous=old).save(): an edit.
NEditPost(u, old, d) ==
    /\ old \in DOMAIN posts
    /\ \A q \in DOMAIN posts : posts[q].previous # old
    /\ NPostSave(u, old, d)

\* post.text = ...; post.save() of a stored row: created is False, and
\* save() returns after the post_save handlers.
NSaveStored(p) ==
    /\ npc.at = "idle"
    /\ p \in DOMAIN posts
    /\ LET prev == posts[p].previous
           P1 == [posts EXCEPT ![p].odate = IF prev # Null
                                            THEN posts[prev].odate ELSE @]
       IN  /\ posts' = P1
           /\ \E s \in PostSignal(P1, threads, cats, TheThread) :
                /\ threads' = s[1]
                /\ cats' = s[2]
    /\ npc' = IF ShouldNotify(FALSE, posts[p].user)
              THEN [at |-> "get_or_create_settings", post |-> p,
                    raised |-> FALSE]
              ELSE Idle(p, FALSE)
    /\ UNCHANGED <<seq, now, watchlist, usersettings, mails, SNAP_NOTIFY,
                   DEBUG, ADMINS, notNotify>>

\* usettings, _ = UserSettings.objects.get_or_create(user=self.user)
NGetOrCreateSettings ==
    /\ npc.at = "get_or_create_settings"
    /\ usersettings' =
            get_or_create_settings(usersettings, posts[npc.post].user)
    /\ npc' = [npc EXCEPT !.at = "get_or_create_watch"]
    /\ UNCHANGED <<forumVars, watchlist, mails, SNAP_NOTIFY, DEBUG, ADMINS,
                   notNotify>>

\* WatchList.objects.get_or_create(user=self.user, thread=self.thread): get()
\* raises MultipleObjectsReturned when it finds more than one row.
NGetOrCreateWatch ==
    /\ npc.at = "get_or_create_watch"
    /\ LET u == posts[npc.post].user
       IN  IF Cardinality(WatchRows(watchlist, u, TheThread)) > 1
           THEN /\ npc' = Idle(npc.post, TRUE)
                /\ UNCHANGED watchlist
           ELSE /\ watchlist' = get_or_create_watch(watchlist, u, TheThread)
                /\ npc' = [npc EXCEPT !.at = "notify"]
    /\ UNCHANGED <<forumVars, usersettings, mails, SNAP_NOTIFY, DEBUG, ADMINS,
                   notNotify>>

\* self.notify(): send_mail(subj, body, from, recipients,
\* fail_silently=settings.DEBUG).  The transport works (ok) or fails; a
\* failure is raised out of save() unless DEBUG is set.  Without recipients
\* send_mail does not reach the transport.
NNotify(ok) ==
    /\ npc.at = "notify"
    /\ LET recipients == notify(watchlist, usersettings, ADMINS, TheThread)
       IN  /\ recipients = {} => ok
           /\ mails' = Append(mails, [post |-> npc.post, to |-> recipients,
                                      delivered |-> ok])
    /\ npc' = Idle(npc.post, ~ok /\ ~DEBUG)
    /\ UNCHANGED <<forumVars, watchlist, usersettings, SNAP_NOTIFY, DEBUG,
                   ADMINS, notNotify>>

NotifyNext ==
    \/ \E u \in Authors, d \in Dates : NCreatePost(u, d)
    \/ \E u \in Authors, old \in DOMAIN posts, d \in Dates : NEditPost(u, old, d)
    \/ \E p \in DOMAIN posts : NSaveStored(p)
    \/ NGetOrCreateSettings
    \/ NGetOrCreateWatch
    \/ \E ok \in BOOLEAN : NNotify(ok)

InitNotify == NotifyInit /\ ConcOff /\ PermOff /\ BanOff /\ InviteOff /\ CallOff
SpecNotify == InitNotify /\ [][NotifyNext]_vars

\* C11: every notification emitted is for a post newly created, by an author
\* who is not null, with notifications enabled; an edit, which stores a new
\* row with previous set, emits none.  (An edit is a new instance, so
\* created is True and notify() runs for it.)
C11_NotifyOnlyNewPosts ==
    \A i \in DOMAIN mails :
        /\ SNAP_NOTIFY
        /\ posts[mails[i].post].user # Null
        /\ posts[mails[i].post].previous = Null

\* The users with a WatchList row on TheThread, those who have turned
\* notify_email off, and the addresses of the site administrators.
Watchers ==
    {u \in Users : \E k \in DOMAIN watchlist :
                        watchlist[k] = [user |-> u, thread |-> TheThread]}
OptedOut == {u \in DOMAIN usersettings : ~usersettings[u].notify_email}
AdminAddresses == {a[2] : a \in ADMINS}

\* C12: the one notification emitted for a new post goes to the addresses of
\* the users watching the thread, less those with notify_email off, plus
\* every administrator address (also that of an administrator who watches
\* with notify_email off), each address once.
C12_Recipients ==
    [][(\E ok \in BOOLEAN : NNotify(ok)) =>
        /\ \A i \in DOMAIN mails : mails[i].post # npc.post
        /\ Len(mails') = Len(mails) + 1
        /\ mails'[Len(mails')].post = npc.post
        /\ mails'[Len(mails')].to =
                {Email(u) : u \in Watchers \ OptedOut} \cup AdminAddresses]_vars

\* Both users watch with notify_email off, user 1 is an administrator, and
\* the notification went to the two administrator addresses only.
C12_Witness ==
    /\ Len(mails) > 0
    /\ Watchers = {1, 2} /\ OptedOut = {1, 2}
    /\ <<"admin", Email(1)>> \in ADMINS
    /\ mails[Len(mails)].to = {Email(1), AdminMail}

\* At most one WatchList row for each (user, thread).
OneRowEach ==
    \A j, k \in DOMAIN watchlist : watchlist[j] = watchlist[k] => j = k

\* The author of every stored post watches its thread, the post whose save
\* has not yet reached the get_or_create apart.
AuthorsWatch ==
    \A p \in DOMAIN posts :
        \/ npc.post = p
            /\ npc.at \in {"get_or_create_settings", "get_or_create_watch"}
        \/ \E k \in DOMAIN watchlist :
            watchlist[k] = [user |-> posts[p].user, thread |-> posts[p].thread]

\* C13: with notifications enabled, once a user's post in the thread is
\* saved a WatchList row for (user, thread) is stored; the saves leave at
\* most one row for each pair and remove or change no row.
C13_AuthorsAutoWatch ==
    [][/\ SNAP_NOTIFY => AuthorsWatch'
       /\ OneRowEach'
       /\ \A k \in DOMAIN watchlist :
            k \in DOMAIN watchlist' /\ watchlist'[k] = watchlist[k]]_vars

\* User 1 has posted twice in the thread and has the one row the first save
\* created, next to the row user 2 had.
C13_Witness ==
    /\ SNAP_NOTIFY /\ npc.at = "idle"
    /\ DOMAIN posts = {1, 2} /\ posts[1].user = 1 /\ posts[2].user = 1
    /\ \E k \in DOMAIN watchlist : k \notin Users /\ watchlist[k].user = 1
    /\ Cardinality(DOMAIN watchlist) = 2

\* The aggregates of TheThread and of its category take the stored posts
\* into account, the post being saved among them.
Recomputed ==
    /\ npc.post \in DOMAIN posts
    /\ ThreadDerived(TheThread)
    /\ cats[threads[TheThread].category].last_post
            \in NewestPublic(threads[TheThread].category)

\* C14: when Post.save() comes to notify, the thread and the category have
\* been recomputed with the new post; and when the transport fails, the post
\* row and the aggregates stay as they were stored.
C14_NotifyAfterRecompute ==
    [][/\ npc'.at = "notify" => Recomputed'
       /\ NNotify(FALSE) =>
            /\ npc.post \in DOMAIN posts'
            /\ <<posts', threads', cats'>> = <<posts, threads, cats>>
            /\ Recomputed']_vars

\* The transport has failed for the second post, save() has raised, and the
\* post is stored and counted, and is the category's last post.
C14_Witness ==
    /\ npc = Idle(2, TRUE)
    /\ ~mails[Len(mails)].delivered
    /\ 2 \in DOMAIN posts
    /\ threads[TheThread].post_count = 2
    /\ threads[TheThread].last_poster = Username(posts[2].user)
    /\ posts[2].date > posts[1].date
    /\ cats[1].last_post = 2

(***************************************************************************)
(* Invitations: sequential creates, saves and deletes of Invitation rows.  *)
(* post_save runs notify_received and pre_delete runs notify_cancelled;    *)
(* each sends when the notification app is there and the instance's        *)
(* accepted is None.                                                       *)
(***************************************************************************)
MaxInvitations == 2
MaxReceived == 3

\* The values of the NullBooleanField accepted.
Pending == "None"
Accepted == "True"
Declined == "False"
Outcomes == {Pending, Accepted, Declined}

\* A handler that sends for every invitation, pending or not.
notify_whatever(instance) == notification

\* Invitation.notify_received: whether 'group_invitation_received' is sent.
notify_received(instance) == notification /\ instance.accepted = Pending

\* Invitation.notify_cancelled: whether 'group_invitation_cancelled' is sent.
notify_cancelled(instance) == notification /\ instance.accepted = Pending

\* notification.send(..., label, ...) for invitation k, when sends holds.
Send(N, k, label, sends) ==
    IF sends THEN [N EXCEPT ![k][label] = @ + 1] ELSE N

InviteInit ==
    /\ invitations = <<>>
    /\ invSeq = 0
    /\ notices = <<>>
    /\ notification \in BOOLEAN

notInvite == <<cats, threads, posts, seq, now, pc, loc, pcat, group, actor,
               result, userBans, ipBans, banSeq, SNAP_BANNED_USERS,
               SNAP_BANNED_IPS, notifyVars, call>>

\* Invitation(accepted=acc).save(): insert, then post_save.
CreateInvitation(acc) ==
    /\ invSeq < MaxInvitations
    /\ LET k == invSeq + 1
           instance == [accepted |-> acc]
       IN  /\ invitations' = With(invitations, k, instance)
           /\ invSeq' = k
           /\ notices' = Send(Append(notices, [received |-> 0, cancelled |-> 0]),
                              k, "received", notify_received(instance))
    /\ UNCHANGED <<notification, notInvite>>

\* invitation.accepted = acc; invitation.save(): update, then post_save.
SaveInvitation(k, acc) ==
    /\ k \in DOMAIN invitations
    /\ notices[k].received < MaxReceived
    /\ LET instance == [invitations[k] EXCEPT !.accepted = acc]
       IN  /\ invitations' = [invitations EXCEPT ![k] = instance]
           /\ notices' = Send(notices, k, "received", notify_received(instance))
    /\ UNCHANGED <<invSeq, notification, notInvite>>

\* invitation.delete(): pre_delete, then the row is removed.
DeleteInvitation(k) ==
    /\ k \in DOMAIN invitations
    /\ notices' = Send(notices, k, "cancelled",
                       notify_cancelled(invitations[k]))
    /\ invitations' = Without(invitations, {k})
    /\ UNCHANGED <<invSeq, notification, notInvite>>

InviteNext ==
    \/ \E acc \in Outcomes : CreateInvitation(acc)
    \/ \E k \in DOMAIN invitations, acc \in Outcomes : SaveInvitation(k, acc)
    \/ \E k \in DOMAIN invitations : DeleteInvitation(k)

InitInvite == InviteInit /\ ForumOff /\ ConcOff /\ PermOff /\ BanOff /\ NotifyOff /\ CallOff
SpecInvite == InitInvite /\ [][InviteNext]_vars

InvitationIds == 1..MaxInvitations

\* C15: with the notification app there, an invitation created pending gets
\* one "received" at creation, a save that leaves it pending emits no further
\* "received", and its deletion while pending emits the one "cancelled" and
\* no "received": one of each over its life.  (post_save runs
\* notify_received on every save, so each save of a pending invitation sends
\* "received" again.)
C15_OnceReceivedOnceCancelled ==
    [][notification =>
        /\ CreateInvitation(Pending) =>
                notices'[invSeq'] = [received |-> 1, cancelled |-> 0]
        /\ \A k \in InvitationIds :
            /\ (k \in DOMAIN invitations /\ invitations[k].accepted = Pending
                    /\ SaveInvitation(k, Pending)) =>
                    notices'[k] = notices[k]
            /\ (k \in DOMAIN invitations /\ invitations[k].accepted = Pending
                    /\ DeleteInvitation(k)) =>
                    notices'[k] = [received |-> 1, cancelled |-> 1]]_vars

RECURSIVE ChainRoot(_)
ChainRoot(p) ==
    IF posts[p].previous = Null THEN p ELSE ChainRoot(posts[p].previous)

\* C17: every stored row carries the original date of the row it
\* supersedes, a row with no previous carries its own creation time, and so
\* every row of a chain carries the creation time of the chain's first row.
C17_ChainKeepsOriginalDate ==
    \A p \in DOMAIN posts :
        /\ posts[p].previous = Null => posts[p].odate = posts[p].date
        /\ posts[p].previous # Null =>
            /\ posts[p].previous \in DOMAIN posts
            /\ posts[p].odate = posts[posts[p].previous].odate
        /\ posts[p].odate = posts[ChainRoot(p)].date

\* Post 2 is a later edit of post 1 and carries the creation time of post 1.
C17_Witness ==
    /\ DOMAIN posts = {1, 2}
    /\ posts[1].previous = Null /\ posts[2].previous = 1
    /\ posts[2].date > posts[1].date
    /\ posts[2].odate = posts[1].date

(***************************************************************************)
(* Direct calls of Thread methods, on the states the sequential forum      *)
(* reaches: thread.update(), get_first_post(), get_last_post() and         *)
(* get_post_count(user, before).  The call and what it gave are recorded;  *)
(* a run ends with the call.                                               *)
(***************************************************************************)
\* What a call gives: a value returned, or an exception raised.
Returned(v) == [raised |-> FALSE, value |-> v, error |-> ""]
Raised(e) == [raised |-> TRUE, value |-> Null, error |-> e]

\* Thread.get_first_post: order_by("date")[0] raises IndexError on an empty
\* query, which "except DoesNotExist" does not catch.
FirstPostCall(P, t) ==
    IF get_first_post(P, t) = {} THEN {Raised("IndexError")}
    ELSE {Returned(p) : p \in get_first_post(P, t)}

\* Thread.get_last_post: as get_first_post, with order_by("-date").
LastPostCall(P, t) ==
    IF get_last_post(P, t) = {} THEN {Raised("IndexError")}
    ELSE {Returned(p) : p \in get_last_post(P, t)}

\* Thread.get_post_count(user, before): the result of
\* qs.filter(date__lt=before.date) is not assigned, and qs is counted as it was.
get_post_count(P, t, is_staff, before) ==
    LET qs == {p \in post_set(P, t) : P[p].revision = Null}
        qs2 == IF ~is_staff THEN {p \in qs : ~P[p].censor} ELSE qs
        filtered == IF before # Null
                    THEN {p \in qs2 : P[p].date < P[before].date}
                    ELSE qs2
    IN  Cardinality(qs2)

NoCall == [op |-> "none", thread |-> Null, is_staff |-> FALSE,
           before |-> Null, ret |-> Returned(Null)]

CallInit == ForumInit /\ call = NoCall

\* thread.update(): update_last_update raises IndexError when the thread has
\* no post, before anything is saved; else the thread is saved and post_save
\* updates its category.
CallUpdate(t) ==
    /\ call.op = "none"
    /\ t \in DOMAIN threads
    /\ IF post_set(posts, t) = {}
       THEN /\ call' = [NoCall EXCEPT !.op = "update", !.thread = t,
                                      !.ret = Raised("IndexError")]
            /\ UNCHANGED <<threads, cats>>
       ELSE /\ \E s \in PostSignal(posts, threads, cats, t) :
                    /\ threads' = s[1]
                    /\ cats' = s[2]
            /\ call' = [NoCall EXCEPT !.op = "update", !.thread = t]
    /\ UNCHANGED <<posts, seq, now, pc, loc, pcat, group, actor, result,
                   banVars, notifyVars, inviteVars>>

\* thread.get_first_post()
CallGetFirstPost(t) ==
    /\ call.op = "none"
    /\ t \in DOMAIN threads
    /\ \E r \in FirstPostCall(posts, t) :
        call' = [NoCall EXCEPT !.op = "get_first_post", !.thread = t, !.ret = r]
    /\ UNCHANGED <<forumVars, pc, loc, pcat, group, actor, result, banVars,
                   notifyVars, inviteVars>>

\* thread.get_last_post()
CallGetLastPost(t) ==
    /\ call.op = "none"
    /\ t \in DOMAIN threads
    /\ \E r \in LastPostCall(posts, t) :
        call' = [NoCall EXCEPT !.op = "get_last_post", !.thread = t, !.ret = r]
    /\ UNCHANGED <<forumVars, pc, loc, pcat, group, actor, result, banVars,
                   notifyVars, inviteVars>>

\* thread.get_post_count(user, before), user.is_staff being is_staff and
\* before None or a stored post.
CallGetPostCount(t, is_staff, before) ==
    /\ call.op = "none"
    /\ t \in DOMAIN threads
    /\ before = Null \/ before \in DOMAIN posts
    /\ call' = [op |-> "get_post_count", thread |-> t, is_staff |-> is_staff,
                before |-> before,
                ret |-> Returned(get_post_count(posts, t, is_staff, before))]
    /\ UNCHANGED <<forumVars, pc, loc, pcat, group, actor, result, banVars,
                   notifyVars, inviteVars>>

CallNext ==
    \/ call.op = "none" /\ \E c \in CatIds, priv \in BOOLEAN : CreateThread(c, priv)
    \/ call.op = "none" /\ \E u \in Users, t \in DOMAIN threads, d \in Dates :
            CreatePost(u, t, d)
    \/ call.op = "none" /\ \E u \in Users, old \in DOMAIN posts, d \in Dates :
            EditPost(u, old, d)
    \/ call.op = "none" /\ \E p \in DOMAIN posts, cen \in BOOLEAN,
                              rev \in {Null} \cup DOMAIN posts :
            UpdatePost(p, cen, rev)
    \/ call.op = "none" /\ \E p \in DOMAIN posts : DeletePost(p)
    \/ \E t \in DOMAIN threads : CallUpdate(t)
    \/ \E t \in DOMAIN threads : CallGetFirstPost(t)
    \/ \E t \in DOMAIN threads : CallGetLastPost(t)
    \/ \E t \in DOMAIN threads, is_staff \in BOOLEAN,
          before \in {Null} \cup DOMAIN posts :
            CallGetPostCount(t, is_staff, before)

InitCall ==
    CallInit /\ ConcOff /\ PermOff /\ BanOff /\ NotifyOff /\ InviteOff
SpecCall == InitCall /\ [][CallNext]_vars

\* No two stored posts carry the same date: every query of the thread and
\* category recompute has one answer.
DistinctDates ==
    \A p, q \in DOMAIN posts : posts[p].date = posts[q].date => p = q

\* A further thread.update() on t leaves the stored thread and category rows
\* as they are: the rows are among those the recompute may store (its queries
\* answering as before), and are the only ones where no dates are equal.  On
\* a thread without posts the call raises and stores nothing.
RecomputeChangesNothing(t) ==
    \/ PostsOf(t) = {}
    \/ /\ <<threads, cats>> \in PostSignal(posts, threads, cats, t)
       /\ DistinctDates =>
            PostSignal(posts, threads, cats, t) = {<<threads, cats>>}

\* C18: in the states post creates, edits and deletes leave, once the
\* recompute of a thread (with the category recompute it triggers) has run,
\* running it again with nothing changed in between stores the same thread
\* and category aggregates.
C18_RecomputeIdempotent ==
    [][\A t \in ThreadIds :
        CallUpdate(t) =>
            /\ RecomputeChangesNothing(t)'
            /\ PostsOf(t) = {} => <<threads', cats'>> = <<threads, cats>>]_vars

\* The only post left in the thread is post 2, the deletion of post 1 had
\* left the count at 2, and the recompute has run and stored 1.
C18_Witness ==
    /\ call.op = "update" /\ ~call.ret.raised
    /\ DOMAIN posts = {2}
    /\ threads[call.thread].post_count = 1
    /\ threads[call.thread].starter = Username(posts[2].user)

\* The visible posts of thread t for a user: no revision link and, unless
\* the user is staff, not censored.
VisiblePosts(t, is_staff) ==
    {p \in PostsOf(t) : posts[p].revision = Null
                            /\ (is_staff \/ ~posts[p].censor)}

\* C19: get_post_count(user, before) returns the number of visible posts of
\* the thread, and with before a Post the number of those dated strictly
\* before it.  (The filter on before is computed and dropped: all the
\* visible posts are counted.)
C19_CountsOlderPosts ==
    call.op = "get_post_count" =>
        /\ ~call.ret.raised
        /\ call.ret.value =
            IF call.before = Null
            THEN Cardinality(VisiblePosts(call.thread, call.is_staff))
            ELSE Cardinality(
                    {p \in VisiblePosts(call.thread, call.is_staff) :
                        posts[p].date < posts[call.before].date})

\* C20: on a thread without posts get_first_post and get_last_post return
\* None without raising, and thread.update() completes and leaves
\* last_update null.  (The empty query raises IndexError, which is not the
\* DoesNotExist the methods catch.)
C20_EmptyThreadIsHandled ==
    (call.op # "none" /\ PostsOf(call.thread) = {}) =>
        /\ call.op \in {"get_first_post", "get_last_post"} =>
                call.ret = Returned(Null)
        /\ call.op = "update" =>
                /\ ~call.ret.raised
                /\ threads[call.thread].last_update = Null

(***************************************************************************)
(* Concurrent ban mutations.  Each request creates or deletes one UserBan  *)
(* row (or, both requests alike, one IPBan row) and runs update_cache from *)
(* post_save / post_delete.  update_cache executes its SELECT and then     *)
(* assigns the set to the setting: two steps, with no lock around them.    *)
(***************************************************************************)
BanConcInit ==
    /\ userBans \in {<<>>, <<1>>}
    /\ ipBans \in {<<>>, <<1>>}
    /\ banSeq = [user |-> Len(userBans), ip |-> Len(ipBans)]
    /\ SNAP_BANNED_USERS = UserBan_update_cache(userBans)
    /\ SNAP_BANNED_IPS = IPBan_update_cache(ipBans)
    /\ pc = [r \in Requests |-> "start"]
    /\ \E kind \in {"UserBan", "IPBan"} :
        loc = [r \in Requests |-> [kind |-> kind, fetched |-> {}]]

notBanConc == <<cats, threads, posts, seq, now, pcat, group, actor, result,
                notifyVars, inviteVars, call>>

\* UserBan(user=u).save(): the INSERT, refused with IntegrityError when the
\* user is banned already; post_save follows the insert.
BcCreateUserBan(r, u) ==
    /\ pc[r] = "start" /\ loc[r].kind = "UserBan"
    /\ banSeq.user < MaxBans
    /\ IF Unique(userBans, Null, u)
       THEN /\ userBans' = With(userBans, banSeq.user + 1, u)
            /\ banSeq' = [banSeq EXCEPT !.user = @ + 1]
            /\ Goto(r, "select_users")
       ELSE /\ Goto(r, "done")
            /\ UNCHANGED <<userBans, banSeq>>
    /\ UNCHANGED <<ipBans, SNAP_BANNED_USERS, SNAP_BANNED_IPS, loc, notBanConc>>

\* ban.delete() of the stored UserBan row k; post_delete follows.
BcDeleteUserBan(r, k) ==
    /\ pc[r] = "start" /\ loc[r].kind = "UserBan"
    /\ k \in DOMAIN userBans
    /\ userBans' = Without(userBans, {k})
    /\ Goto(r, "select_users")
    /\ UNCHANGED <<ipBans, banSeq, SNAP_BANNED_USERS, SNAP_BANNED_IPS, loc,
                   notBanConc>>

\* UserBan.update_cache: c.execute('SELECT user_id FROM ...'), c.fetchall()
BcSelectUsers(r) ==
    /\ pc[r] = "select_users"
    /\ loc' = [loc EXCEPT ![r].fetched = UserBan_update_cache(userBans)]
    /\ Goto(r, "assign_users")
    /\ UNCHANGED <<banVars, notBanConc>>

\* UserBan.update_cache: settings.SNAP_BANNED_USERS = set(...)
BcAssignUsers(r) ==
    /\ pc[r] = "assign_users"
    /\ SNAP_BANNED_USERS' = loc[r].fetched
    /\ Goto(r, "done")
    /\ UNCHANGED <<userBans, ipBans, banSeq, SNAP_BANNED_IPS, loc, notBanConc>>

\* IPBan(address=a).save(): the INSERT, refused when the address is banned
\* already; post_save follows the insert.
BcCreateIPBan(r, a) ==
    /\ pc[r] = "start" /\ loc[r].kind = "IPBan"
    /\ banSeq.ip < MaxBans
    /\ IF Unique(ipBans, Null, a)
       THEN /\ ipBans' = With(ipBans, banSeq.ip + 1, a)
            /\ banSeq' = [banSeq EXCEPT !.ip = @ + 1]
            /\ Goto(r, "select_ips")
       ELSE /\ Goto(r, "done")
            /\ UNCHANGED <<ipBans, banSeq>>
    /\ UNCHANGED <<userBans, SNAP_BANNED_USERS, SNAP_BANNED_IPS, loc,
                   notBanConc>>

\* ban.delete() of the stored IPBan row k; post_delete follows.
BcDeleteIPBan(r, k) ==
    /\ pc[r] = "start" /\ loc[r].kind = "IPBan"
    /\ k \in DOMAIN ipBans
    /\ ipBans' = Without(ipBans, {k})
    /\ Goto(r, "select_ips")
    /\ UNCHANGED <<userBans, banSeq, SNAP_BANNED_USERS, SNAP_BANNED_IPS, loc,
                   notBanConc>>

\* IPBan.update_cache: c.execute('SELECT address FROM ...'), c.fetchall()
BcSelectIPs(r) ==
    /\ pc[r] = "select_ips"
    /\ loc' = [loc EXCEPT ![r].fetched = IPBan_update_cache(ipBans)]
    /\ Goto(r, "assign_ips")
    /\ UNCHANGED <<banVars, notBanConc>>

\* IPBan.update_cache: settings.SNAP_BANNED_IPS = set(...)
BcAssignIPs(r) ==
    /\ pc[r] = "assign_ips"
    /\ SNAP_BANNED_IPS' = loc[r].fetched
    /\ Goto(r, "done")
    /\ UNCHANGED <<userBans, ipBans, banSeq, SNAP_BANNED_USERS, loc, notBanConc>>

BanConcNext ==
    \/ \E r \in Requests, u \in BanUsers : BcCreateUserBan(r, u)
    \/ \E r \in Requests, k \in DOMAIN userBans : BcDeleteUserBan(r, k)
    \/ \E r \in Requests : BcSelectUsers(r)
    \/ \E r \in Requests : BcAssignUsers(r)
    \/ \E r \in Requests, a \in Addresses : BcCreateIPBan(r, a)
    \/ \E r \in Requests, k \in DOMAIN ipBans : BcDeleteIPBan(r, k)
    \/ \E r \in Requests : BcSelectIPs(r)
    \/ \E r \in Requests : BcAssignIPs(r)

InitBanConc ==
    BanConcInit /\ ForumOff /\ PermOff /\ NotifyOff /\ InviteOff /\ CallOff
SpecBanConc == InitBanConc /\ [][BanConcNext]_vars

\* C21: once the concurrent ban mutations have all finished, the cached user
\* set is the set of users of the stored UserBan rows and the cached address
\* set that of the stored IPBan rows.  (A request that ran its SELECT before
\* the other committed may assign last.)
C21_ConcurrentCacheIsStore ==
    (\A r \in Requests : pc[r] = "done") =>
        /\ SNAP_BANNED_USERS = {userBans[k] : k \in DOMAIN userBans}
        /\ SNAP_BANNED_IPS = {ipBans[k] : k \in DOMAIN ipBans}

(***************************************************************************)
(* The permission checks again: what they give for every category.         *)
(***************************************************************************)
\* The permission level and the group field a check reads.
LevelRead(check) ==
    CASE check = "can_view" -> pcat.view_perms
      [] check = "can_read" -> pcat.read_perms
      [] check = "can_post" -> pcat.post_perms
      [] check = "can_create_thread" -> pcat.new_thread_perms
GroupRead(check) ==
    CASE check = "can_view" -> pcat.view_group
      [] check = "can_read" -> pcat.read_group
      [] check = "can_post" -> pcat.post_group
      [] check = "can_create_thread" -> pcat.new_thread_group

\* C22: each of the four checks returns a boolean and raises nothing, and
\* leaves the category, the group and every stored row as they were, whatever
\* the level, the user and the groups; where the level is CUSTOM and the
\* group field is not set, a user who is no superuser is refused.  (For an
\* authenticated user who is no superuser the check calls has_user on None
\* and raises AttributeError.)
C22_ChecksNeverRaise ==
    [][PermNext =>
        /\ ~result'.ret.raised
        /\ result'.ret.flag \in BOOLEAN
        /\ UNCHANGED <<pcat, group, actor, forumVars, banVars>>
        /\ (LevelRead(result'.check) = CUSTOM
                /\ GroupRead(result'.check) = Null
                /\ ~actor.is_superuser) => ~result'.ret.flag]_vars

=============================================================================
